---- MODULE Spec2Model ----
(***************************************************************************)
(* Model of the deployment-guide cache of src/src/index.ts                 *)
(* (getCachedDeploymentGuide and ensureCacheDir).                          *)
(*                                                                         *)
(* An invocation is an async function: it runs synchronously between its   *)
(* awaits (access, mkdir, readFile, fetch, response.text, writeFile), and  *)
(* other invocations and the clock may move at every await.  Each action   *)
(* below is one such await together with the synchronous code that runs    *)
(* when it settles.  The file system, the network and the clock are the    *)
(* environment: their outcomes are chosen nondeterministically.            *)
(*                                                                         *)
(* writeFile is not atomic: it opens the file with flag 'w', which         *)
(* truncates it, and then writes the text from offset 0 of its own file    *)
(* descriptor.  Other invocations may read or write the file in between.   *)
(*                                                                         *)
(* The second part models the CallToolRequestSchema handler of the same     *)
(* file: the dispatch on the tool name, get_auth_token, create_env_file     *)
(* and the catch that turns every error into a result.  Spec is the         *)
(* specification of the cache, ToolSpec that of the handler.                *)
(***************************************************************************)
EXTENDS Integers, FiniteSets, Sequences, TLC

\* ---------------------------------------------------------------- bounds
NumInvocations == 2    \* invocations in one behaviour, concurrent or in sequence
MaxTicks == 1          \* clock advances in one behaviour
MaxTokenLen == 9       \* longest AI_BUILDER_TOKEN, in characters

\* ------------------------------------------------------------- constants
\* 24 * 60 * 60 * 1000 ms, the freshness window of line 73
TTL == 24 * 60 * 60 * 1000

\* The invocations of getCachedDeploymentGuide, each made once.
Procs == 1..NumInvocations

\* Clock steps (ms): one millisecond short of the window.
Deltas == {TTL - 1}

\* Bodies the remote document may have.
Bodies == {"NEW", "NEWER"}

\* A property that is absent from a parsed JSON object.
Missing == "<undefined>"

\* ------------------------------------------------------------ JS values
\* A cached_at value: an ISO-8601 string of an instant (ms since the epoch),
\* a string that is no date, undefined (the property is missing), or null.
IsoString(ms) == [kind |-> "iso", ms |-> ms]
MalformedDate == [kind |-> "malformed", ms |-> 0]
UndefinedDate == [kind |-> "undefined", ms |-> 0]
NullDate == [kind |-> "null", ms |-> 0]

\* new Date().toISOString(): the instant, to the millisecond.
ToISOString(t) == IsoString(t)

\* new Date(v).getTime(): the instant of an ISO string; NaN for a string that
\* is no date and for undefined; 0, the epoch, for null.
NaN == [nan |-> TRUE, ms |-> 0]
Num(n) == [nan |-> FALSE, ms |-> n]
DateGetTime(v) ==
  IF v.kind = "iso" THEN Num(v.ms)
  ELSE IF v.kind = "null" THEN Num(0)
  ELSE NaN

\* a - b and a < b on JS numbers: NaN propagates, every comparison with NaN
\* is false.
JsMinus(a, b) == IF a.nan \/ b.nan THEN NaN ELSE Num(a.ms - b.ms)
\* Variant: the comparison written as "not greater or equal", which is true of
\* NaN.
JsLessNotGe(a, b) == IF a.nan \/ b.nan THEN TRUE ELSE a.ms < b.ms
JsLess(a, b) == IF a.nan \/ b.nan THEN FALSE ELSE a.ms < b.ms

\* The body returned by getDefaultDeploymentGuide() (default argument).
getDefaultDeploymentGuide == "# FASTAPI Service Deployment Guide"

\* A parsed JSON object with the three properties the code looks at.
Obj(c, t, s) == [content |-> c, cached_at |-> t, source |-> s]
NoObj == Obj(Missing, UndefinedDate, Missing)

\* ------------------------------------------------------------ cache file
\* The text of DEPLOYMENT_GUIDE_CACHE: absent, text that is not JSON, the
\* JSON text "null", or the JSON text of an object; while writes are under way
\* also the empty text, and the text of an object followed by the tail of a
\* longer text that was there before (obj is then the object of the longer
\* text, which still decides the length).
FileAbsent == [kind |-> "absent", obj |-> NoObj]
FileGarbage == [kind |-> "garbage", obj |-> NoObj]
FileNull == [kind |-> "null", obj |-> NoObj]
FileEmpty == [kind |-> "empty", obj |-> NoObj]
FileTorn(longer) == [kind |-> "torn", obj |-> longer]

\* JSON.stringify(cacheData, null, 2)
JSONStringify(o) == [kind |-> "object", obj |-> o]

\* Length of the text of a file.  The texts of two records differ in length
\* only by their contents: an ISO time has 24 characters, the source is fixed.
TextLen(f) == IF f.kind \in {"object", "torn"} THEN Len(f.obj.content) ELSE 0

\* The text g written from offset 0 over the text f, without truncation:
\* what f has beyond the length of g stays.
Overwrite(f, g) ==
  IF TextLen(f) <= TextLen(g) THEN g ELSE FileTorn(f.obj)

\* JSON.parse(text) followed by the property read cacheData.cached_at:
\* throws on text that is not JSON (the empty text and a text with trailing
\* characters included) and on null.
ParseThrows(f) == f.kind \in {"garbage", "null", "empty", "torn"}
JSONParse(f) == f.obj

\* Variants of the freshness test: the comparison turned round, the bound
\* included, and a window that lost a factor of 60.
IsFreshReversed(cachedTime, nowTime) ==
  JsLess(Num(TTL), JsMinus(nowTime, cachedTime))
IsFreshInclusive(cachedTime, nowTime) ==
  JsLess(JsMinus(nowTime, cachedTime), Num(TTL + 1))
IsFreshShortWindow(cachedTime, nowTime) ==
  JsLess(JsMinus(nowTime, cachedTime), Num(24 * 60 * 1000))

\* line 73: now.getTime() - cachedTime.getTime() < 24 * 60 * 60 * 1000
IsFresh(cachedTime, nowTime) == JsLess(JsMinus(nowTime, cachedTime), Num(TTL))

\* ------------------------------------------------------------ results
NoResult == [tag |-> "none", rec |-> NoObj]
Raised == [tag |-> "raised", rec |-> NoObj]
Returned(o) == [tag |-> "record", rec |-> o]

\* ------------------------------------------------- the tool-call handler

\* A JavaScript value passed as a tool argument.
JsUndefined == [type |-> "undefined", val |-> ""]
JsBoolean(b) == [type |-> "boolean", val |-> IF b THEN "true" ELSE "false"]
JsString(str) == [type |-> "string", val |-> str]
JsNumber(str) == [type |-> "number", val |-> str]

\* !v for the values above.
Falsy(v) ==
  \/ v.type = "undefined"
  \/ v = JsBoolean(FALSE)
  \/ v = JsString("")
  \/ v = JsNumber("0")

\* The five tools of the switch (lines 125, 184, 204, 233, 260) and a name
\* that is none of them.
ToolNames ==
  {"get_api_specification", "get_deployment_guide",
   "explain_authentication_model", "get_auth_token", "create_env_file"}
UnknownNames == {"delete_env_file"}

\* Tokens are strings of distinct characters, so that a character of the
\* result tells its position in the token.  The empty token stands for an
\* unset or empty AI_BUILDER_TOKEN alike (the "|| ''" of lines 235 and 266).
Alphabet ==
  <<"a", "b", "c", "d", "e", "f", "g", "h", "i", "j", "k", "l", "m",
    "n", "o", "p", "q", "r", "s", "t", "u", "v", "w", "x", "y", "z">>
Token(n) == [i \in 1..n |-> Alphabet[((i - 1) % 26) + 1]]
Tokens == { Token(n) : n \in 0..MaxTokenLen }

Max(a, b) == IF a >= b THEN a ELSE b
Min(a, b) == IF a <= b THEN a ELSE b

\* String.prototype.slice(0, n), slice(-n) and "*".repeat(n) on sequences of
\* characters.
SliceFirst(str, n) == SubSeq(str, 1, Min(n, Len(str)))
SliceLast(str, n) == SubSeq(str, Max(Len(str) - n, 0) + 1, Len(str))
Repeat(c, n) == [i \in 1..n |-> c]

\* lines 239-241: the masked form of a token.
MaskToken(tok) ==
  SliceFirst(tok, 4) \o Repeat("*", Max(0, Len(tok) - 8)) \o SliceLast(tok, 4)

\* line 234: args?.masked !== false.
Masked(arg) == arg # JsBoolean(FALSE)

\* lines 237-242: the token value get_auth_token reports.
AuthTokenValue(arg, tok) ==
  IF Masked(arg) /\ tok # <<>> THEN MaskToken(tok) ELSE tok

\* Variant: overwrite taken as any truthy value.
OverwriteTruthy(arg) == ~Falsy(arg)
\* line 262: args?.overwrite === true.
OverwriteRequested(arg) == arg = JsBoolean(TRUE)

\* line 263: !target_dir || typeof target_dir !== "string".
TargetDirInvalid(arg) == Falsy(arg) \/ arg.type # "string"

\* Variant: the token is never found to be unset.
TokenUnsetNever(tok) == FALSE
\* line 267: !token.
TokenUnset(tok) == tok = <<>>

\* Argument values the handler is called with.
MaskedArgs == {JsUndefined, JsBoolean(FALSE), JsString("no")}
TargetDirArgs == {JsUndefined, JsNumber("42"), JsString(""), JsString("proj")}
OverwriteArgs == {JsUndefined, JsBoolean(TRUE), JsString("true")}

\* request.params of a call: the tool name and the arguments the tool reads.
Request(name, masked, target_dir, overwrite) ==
  [name |-> name, masked |-> masked, target_dir |-> target_dir,
   overwrite |-> overwrite]
NoRequest == Request("", JsUndefined, JsUndefined, JsUndefined)

\* The .env file of the target directory: absent, with content that is not
\* the handler's, empty, or the line written at lines 290-291.
EnvAbsent == [kind |-> "absent", tok |-> <<>>]
EnvOther == [kind |-> "other", tok |-> <<>>]
EnvEmpty == [kind |-> "empty", tok |-> <<>>]
EnvLine(tok) == [kind |-> "line", tok |-> tok]

\* What the handler's promise settles to: a result (its text as a record) or
\* an exception.
NoPayload == [kind |-> "none", msg |-> "", detail |-> "", tok |-> <<>>, flag |-> FALSE]
Payload(kind, flag, tok) == [NoPayload EXCEPT !.kind = kind, !.flag = flag, !.tok = tok]
ErrorMessage(msg, detail) == [NoPayload EXCEPT !.kind = "error", !.msg = msg, !.detail = detail]
NoResponse == [tag |-> "none", isError |-> FALSE, payload |-> NoPayload]
Thrown == [tag |-> "thrown", isError |-> FALSE, payload |-> NoPayload]
ToolResult(payload) == [tag |-> "result", isError |-> FALSE, payload |-> payload]
ErrorResult(payload) == [tag |-> "result", isError |-> TRUE, payload |-> payload]

\* Variant: the handler lets the error through.
HandlerRethrow(error) == Thrown
\* lines 312-326: the catch of the handler.
HandlerCatch(error) == ErrorResult(error)

\* lines 303-306: the catch of create_env_file wraps the message.
FailedToWrite(cause) == ErrorMessage("Failed to write .env: ", cause)

VARIABLES
  now,        \* the clock, ms
  ticks,      \* clock advances so far
  dir,        \* CACHE_DIR exists
  file,       \* text of DEPLOYMENT_GUIDE_CACHE
  pc,         \* per invocation: the await it is suspended at
  cacheData,  \* per invocation: local cacheData (lines 69 and 83)
  result,     \* per invocation: what the promise settled to
  obs         \* per invocation: what it did (observation only)

VARIABLES
  token,      \* process.env.AI_BUILDER_TOKEN || ""
  targetDir,  \* the target directory exists
  envFile,    \* the .env file in it
  request,    \* per call: request.params
  hpc,        \* per call: the await the handler is suspended at
  existed,    \* per call: .env existed when the call was made (observation)
  response    \* per call: what the handler's promise settled to

cvars == <<now, ticks, dir, file, pc, cacheData, result, obs>>
tvars == <<token, targetDir, envFile, request, hpc, existed, response>>
vars == <<cvars, tvars>>

\* No tool call is made.
ToolIdle ==
  /\ request = [p \in Procs |-> NoRequest]
  /\ hpc = [p \in Procs |-> "idle"]
  /\ existed = [p \in Procs |-> FALSE]
  /\ response = [p \in Procs |-> NoResponse]

\* What an invocation has done so far: requests issued, writes issued, what
\* its read of the cache file found, how its fetch ended, the body it fetched
\* and when, how its write ended, whether an invocation whose fetch
\* succeeded had finished when it began, and whether another invocation was
\* in flight at any time while it was.
NoObs == [netCalls |-> 0, writes |-> 0, read |-> "none", fetch |-> "none",
          body |-> Missing, builtAt |-> 0, write |-> "none",
          afterFetch |-> FALSE, overlap |-> FALSE]

\* What a read of the cache file finds at time t, in plain arithmetic:
\* nothing readable, text that does not yield an object, an object whose
\* cached_at is no instant, or a record that is younger than 24 hours, exactly
\* 24 hours old, or older.
ReadKind(f, t) ==
  IF f.kind = "absent" THEN "unreadable"
  ELSE IF f.kind # "object" THEN "corrupt"
  ELSE IF f.obj.cached_at.kind # "iso" THEN "nodate"
  ELSE IF t - f.obj.cached_at.ms < TTL THEN "fresh"
  ELSE IF t - f.obj.cached_at.ms = TTL THEN "stale24h"
  ELSE "stale"

\* Files a user or an earlier version may have left behind.
InitObjs ==
  { Obj("OLD", t, "remote") :
      t \in {IsoString(0), IsoString(1), MalformedDate, UndefinedDate,
             NullDate} }
  \cup { Obj(Missing, t, Missing) : t \in {IsoString(0), IsoString(1)} }
InitFiles == {FileAbsent, FileGarbage, FileNull} \cup { JSONStringify(o) : o \in InitObjs }

\* No invocation of getCachedDeploymentGuide is made.
CacheIdle ==
  /\ pc = [p \in Procs |-> "idle"]
  /\ cacheData = [p \in Procs |-> NoObj]
  /\ result = [p \in Procs |-> NoResult]
  /\ obs = [p \in Procs |-> NoObs]

Init ==
  /\ now = TTL
  /\ ticks = 0
  /\ dir \in BOOLEAN
  /\ file \in InitFiles
  /\ (~dir => file = FileAbsent)
  /\ CacheIdle
  /\ token = Token(0)
  /\ targetDir = FALSE
  /\ envFile = EnvAbsent
  /\ ToolIdle

\* The clock advances.
Tick ==
  /\ ticks < MaxTicks
  /\ \E d \in Deltas : now' = now + d
  /\ ticks' = ticks + 1
  /\ UNCHANGED <<dir, file, pc, cacheData, result, obs, tvars>>

\* Some invocation whose fetch succeeded has already finished.
FetchedBefore == \E q \in Procs : pc[q] = "done" /\ obs[q].fetch = "ok"

\* Invocation q has been made and has not settled.
InFlight(q) == pc[q] \notin {"idle", "done"}

\* A caller invokes getCachedDeploymentGuide(): it runs up to the first await,
\* access(CACHE_DIR) in ensureCacheDir.  Invocations are numbered in the order
\* in which they are made.
Invoke(p) ==
  /\ pc[p] = "idle"
  /\ \A q \in Procs : q < p => pc[q] # "idle"
  /\ pc' = [pc EXCEPT ![p] = "access"]
  /\ obs' = [q \in Procs |->
               IF q = p
               THEN [NoObs EXCEPT !.afterFetch = FetchedBefore,
                                  !.overlap = \E r \in Procs : InFlight(r)]
               ELSE IF InFlight(q) THEN [obs[q] EXCEPT !.overlap = TRUE]
               ELSE obs[q]]
  /\ UNCHANGED <<now, ticks, dir, file, cacheData, result, tvars>>

\* ensureCacheDir, lines 18-20: access settles; on rejection mkdir is called.
Access(p) ==
  /\ pc[p] = "access"
  /\ pc' = [pc EXCEPT ![p] = IF dir THEN "readFile" ELSE "mkdir"]
  /\ UNCHANGED <<now, ticks, dir, file, cacheData, result, obs, tvars>>

\* ensureCacheDir, line 21: mkdir settles.  Its rejection is not caught, neither
\* in ensureCacheDir nor at line 65, so the invocation rejects.
Mkdir(p) ==
  /\ pc[p] = "mkdir"
  /\ \E ok \in BOOLEAN :
       IF ok \/ dir
       THEN /\ dir' = TRUE
            /\ pc' = [pc EXCEPT ![p] = "readFile"]
            /\ UNCHANGED result
       ELSE /\ pc' = [pc EXCEPT ![p] = "done"]
            /\ result' = [result EXCEPT ![p] = Raised]
            /\ UNCHANGED dir
  /\ UNCHANGED <<now, ticks, file, cacheData, obs, tvars>>

\* Variant: the fallback record tagged as if it had been fetched.
FallbackRecordTaggedRemote(t) ==
  Obj(getDefaultDeploymentGuide, ToISOString(t), "remote")

\* lines 101-105: the record built when the remote guide could not be had.
FallbackRecord(t) == Obj(getDefaultDeploymentGuide, ToISOString(t), "default")

\* Variant: the record stamped with the epoch instead of the current time.
RemoteRecordEpoch(body, t) == Obj(body, ToISOString(0), "remote")

\* lines 83-87: the record built from a fetched body.
RemoteRecord(body, t) == Obj(body, ToISOString(t), "remote")

\* lines 69-73: the text parses, cached_at can be read, and it is fresh.
CacheHit(f, t) ==
  /\ ~ParseThrows(f)
  /\ IsFresh(DateGetTime(JSONParse(f).cached_at), Num(t))

\* lines 68-80: readFile settles; it rejects when there is no such file.  The
\* rejection, and a throw of JSON.parse or of the property read, are swallowed
\* by the empty catch; a fresh record is returned as parsed; otherwise fetch()
\* is called.
ReadFile(p) ==
  /\ pc[p] = "readFile"
  /\ LET seen == [obs[p] EXCEPT !.read = ReadKind(file, now)]
     IN IF file.kind # "absent" /\ CacheHit(file, now)
        THEN /\ result' = [result EXCEPT ![p] = Returned(JSONParse(file))]
             /\ pc' = [pc EXCEPT ![p] = "done"]
             /\ obs' = [obs EXCEPT ![p] = seen]
        ELSE /\ pc' = [pc EXCEPT ![p] = "fetch"]
             /\ obs' = [obs EXCEPT ![p] =
                          [seen EXCEPT !.netCalls = @ + 1, !.fetch = "pending"]]
             /\ UNCHANGED result
  /\ UNCHANGED <<now, ticks, dir, file, cacheData, tvars>>

\* Variant: a response that is not ok is requested again.
FetchRetry(p) ==
  /\ pc[p] = "fetch"
  /\ \E outcome \in {"reject", "notOk", "ok"} :
       CASE outcome = "ok" ->
              /\ pc' = [pc EXCEPT ![p] = "text"]
              /\ UNCHANGED <<result, obs>>
         [] outcome = "notOk" /\ obs[p].netCalls < 2 ->
              /\ obs' = [obs EXCEPT ![p].netCalls = @ + 1]
              /\ UNCHANGED <<pc, result>>
         [] OTHER ->
              /\ pc' = [pc EXCEPT ![p] = "done"]
              /\ result' = [result EXCEPT ![p] = Returned(FallbackRecord(now))]
              /\ obs' = [obs EXCEPT ![p].fetch = "failed"]
  /\ UNCHANGED <<now, ticks, dir, file, cacheData, tvars>>

\* lines 80-81 and 97-105: fetch settles.  A rejection is caught and logged, a
\* response that is not ok falls through; both return the fallback record.
\* An ok response has its body read with response.text().
Fetch(p) ==
  /\ pc[p] = "fetch"
  /\ \E outcome \in {"reject", "notOk", "ok"} :
       IF outcome = "ok"
       THEN /\ pc' = [pc EXCEPT ![p] = "text"]
            /\ UNCHANGED <<result, obs>>
       ELSE /\ pc' = [pc EXCEPT ![p] = "done"]
            /\ result' = [result EXCEPT ![p] = Returned(FallbackRecord(now))]
            /\ obs' = [obs EXCEPT ![p].fetch = "failed"]
  /\ UNCHANGED <<now, ticks, dir, file, cacheData, tvars>>

\* lines 82-90 and 97-105: response.text() settles.  A rejection is caught by
\* the outer catch and the fallback record is returned; otherwise the remote
\* record is built and writeFile is called.
Text(p) ==
  /\ pc[p] = "text"
  /\ \/ /\ pc' = [pc EXCEPT ![p] = "done"]
        /\ result' = [result EXCEPT ![p] = Returned(FallbackRecord(now))]
        /\ obs' = [obs EXCEPT ![p].fetch = "failed"]
        /\ UNCHANGED cacheData
     \/ \E body \in Bodies :
          /\ cacheData' = [cacheData EXCEPT ![p] = RemoteRecord(body, now)]
          /\ pc' = [pc EXCEPT ![p] = "writeFile"]
          /\ obs' = [obs EXCEPT ![p] =
                       [@ EXCEPT !.fetch = "ok", !.body = body, !.builtAt = now,
                                 !.writes = @ + 1, !.write = "pending"]]
          /\ UNCHANGED result
  /\ UNCHANGED <<now, ticks, dir, file, tvars>>

\* line 90, first half: writeFile opens the file, which truncates it.  If the
\* open is refused the promise rejects: the rejection is logged (lines 91-93)
\* and the remote record is returned (line 95).
WriteOpen(p) ==
  /\ pc[p] = "writeFile"
  /\ \E ok \in BOOLEAN :
       IF ok /\ dir
       THEN /\ file' = FileEmpty
            /\ pc' = [pc EXCEPT ![p] = "writing"]
            /\ UNCHANGED <<result, obs>>
       ELSE /\ obs' = [obs EXCEPT ![p].write = "failed"]
            /\ result' = [result EXCEPT ![p] = Returned(cacheData[p])]
            /\ pc' = [pc EXCEPT ![p] = "done"]
            /\ UNCHANGED file
  /\ UNCHANGED <<now, ticks, dir, cacheData, tvars>>

\* Variant: writeFile without its own try/catch, so that its rejection reaches
\* the outer catch and the fallback record is returned.
WriteFileUncaught(p) ==
  /\ pc[p] = "writing"
  /\ \E ok \in BOOLEAN :
       IF ok
       THEN /\ file' = Overwrite(file, JSONStringify(cacheData[p]))
            /\ obs' = [obs EXCEPT ![p].write = "ok"]
            /\ result' = [result EXCEPT ![p] = Returned(cacheData[p])]
       ELSE /\ obs' = [obs EXCEPT ![p].write = "failed"]
            /\ result' = [result EXCEPT ![p] = Returned(FallbackRecord(now))]
            /\ UNCHANGED file
  /\ pc' = [pc EXCEPT ![p] = "done"]
  /\ UNCHANGED <<now, ticks, dir, cacheData, tvars>>

\* lines 89-95, second half: the write of the text settles and with it
\* writeFile.  The text goes to offset 0 of the opened file; a failed write
\* (disk full, I/O error) leaves the file as it is, truncated.  A rejection is
\* logged; either way the remote record is returned.
WriteFile(p) ==
  /\ pc[p] = "writing"
  /\ \E ok \in BOOLEAN :
       IF ok
       THEN /\ file' = Overwrite(file, JSONStringify(cacheData[p]))
            /\ obs' = [obs EXCEPT ![p].write = "ok"]
       ELSE /\ obs' = [obs EXCEPT ![p].write = "failed"]
            /\ UNCHANGED file
  /\ result' = [result EXCEPT ![p] = Returned(cacheData[p])]
  /\ pc' = [pc EXCEPT ![p] = "done"]
  /\ UNCHANGED <<now, ticks, dir, cacheData, tvars>>

Next ==
  \/ Tick
  \/ \E p \in Procs : Invoke(p)
  \/ \E p \in Procs : Access(p)
  \/ \E p \in Procs : Mkdir(p)
  \/ \E p \in Procs : ReadFile(p)
  \/ \E p \in Procs : Fetch(p)
  \/ \E p \in Procs : Text(p)
  \/ \E p \in Procs : WriteOpen(p)
  \/ \E p \in Procs : WriteFile(p)

Spec == Init /\ [][Next]_vars

\* ------------------------------------------------- the tool-call handler

\* The handler's promise settles: a call runs synchronously between its
\* awaits, exactly as an invocation of the cache does.
Settle(p, resp) ==
  /\ hpc' = [hpc EXCEPT ![p] = "done"]
  /\ response' = [response EXCEPT ![p] = resp]

\* The handler is suspended at an await.
Await(p, label) ==
  /\ hpc' = [hpc EXCEPT ![p] = label]
  /\ UNCHANGED response

\* line 121: the handler is called with a request.  Calls are numbered in the
\* order in which they are made.
Called(p, req) ==
  /\ hpc[p] = "idle"
  /\ \A q \in Procs : q < p => hpc[q] # "idle"
  /\ request' = [request EXCEPT ![p] = req]

\* lines 309-310: a name that is none of the cases.
UnknownTool(p) ==
  /\ \E name \in UnknownNames :
       /\ Called(p, Request(name, JsUndefined, JsUndefined, JsUndefined))
       /\ Settle(p, HandlerCatch(ErrorMessage("Unknown tool: ", name)))
  /\ UNCHANGED <<token, targetDir, envFile, existed, cvars>>

\* lines 204-231: explain_authentication_model returns a constant text.
ExplainAuthenticationModel(p) ==
  /\ Called(p, Request("explain_authentication_model", JsUndefined,
                       JsUndefined, JsUndefined))
  /\ Settle(p, ToolResult(Payload("authentication_model", FALSE, <<>>)))
  /\ UNCHANGED <<token, targetDir, envFile, existed, cvars>>

\* lines 233-258: get_auth_token.  The payload's flag is "masked", its tok is
\* the reported token value.
GetAuthToken(p) ==
  /\ \E arg \in MaskedArgs :
       /\ Called(p, Request("get_auth_token", arg, JsUndefined, JsUndefined))
       /\ Settle(p, ToolResult(Payload("auth_token", Masked(arg),
                                       AuthTokenValue(arg, token))))
  /\ UNCHANGED <<token, targetDir, envFile, existed, cvars>>

\* lines 125-126: get_api_specification starts its fetch.
GetApiSpecification(p) ==
  /\ Called(p, Request("get_api_specification", JsUndefined, JsUndefined,
                       JsUndefined))
  /\ Await(p, "fetchSpec")
  /\ UNCHANGED <<token, targetDir, envFile, existed, cvars>>

\* lines 126-129: the fetch rejects, or resolves with or without response.ok.
FetchSpec(p) ==
  /\ hpc[p] = "fetchSpec"
  /\ \E outcome \in {"ok", "status", "rejected"} :
       IF outcome = "ok" THEN Await(p, "jsonSpec")
       ELSE IF outcome = "status"
       THEN Settle(p, HandlerCatch(ErrorMessage(
              "Failed to fetch OpenAPI specification: HTTP ", "500")))
       ELSE Settle(p, HandlerCatch(ErrorMessage("fetch failed", "")))
  /\ UNCHANGED <<token, targetDir, envFile, request, existed, cvars>>

\* lines 131-181: response.json() resolves, and the text is built, or rejects.
JsonSpec(p) ==
  /\ hpc[p] = "jsonSpec"
  /\ \E ok \in BOOLEAN :
       IF ok THEN Settle(p, ToolResult(Payload("api_specification", FALSE, <<>>)))
       ELSE Settle(p, HandlerCatch(ErrorMessage("Unexpected token", "")))
  /\ UNCHANGED <<token, targetDir, envFile, request, existed, cvars>>

\* lines 184-186: get_deployment_guide awaits getCachedDeploymentGuide.
GetDeploymentGuide(p) ==
  /\ Called(p, Request("get_deployment_guide", JsUndefined, JsUndefined,
                       JsUndefined))
  /\ Await(p, "guide")
  /\ UNCHANGED <<token, targetDir, envFile, existed, cvars>>

\* lines 186-201: getCachedDeploymentGuide settles as it does under Spec: it
\* returns a record or raises (the mkdir of ensureCacheDir).
GuideSettles(p) ==
  /\ hpc[p] = "guide"
  /\ \E res \in {Raised.tag, Returned(NoObj).tag} :
       IF res = "record"
       THEN Settle(p, ToolResult(Payload("deployment_guide", FALSE, <<>>)))
       ELSE Settle(p, HandlerCatch(ErrorMessage("EACCES: mkdir", "")))
  /\ UNCHANGED <<token, targetDir, envFile, request, existed, cvars>>

\* lines 260-271: create_env_file checks its argument and the token.
CreateEnvFile(p) ==
  /\ \E dirArg \in TargetDirArgs, overwriteArg \in OverwriteArgs :
       /\ Called(p, Request("create_env_file", JsUndefined, dirArg,
                            overwriteArg))
       /\ IF TargetDirInvalid(dirArg)
          THEN Settle(p, HandlerCatch(ErrorMessage("target_dir is required", "")))
          ELSE IF TokenUnset(token)
          THEN Settle(p, HandlerCatch(ErrorMessage(
                 "AI_BUILDER_TOKEN is not set in server environment", "")))
          ELSE Await(p, "mkdirEnv")
  /\ existed' = [existed EXCEPT ![p] = envFile # EnvAbsent]
  /\ UNCHANGED <<token, targetDir, envFile, cvars>>

\* lines 272-273: mkdir(target_dir, {recursive: true}) resolves when the
\* directory exists, and creates it or rejects when it does not.
MkdirEnv(p) ==
  /\ hpc[p] = "mkdirEnv"
  /\ \E ok \in IF targetDir THEN {TRUE} ELSE BOOLEAN :
       IF ok
       THEN /\ targetDir' = TRUE
            /\ Await(p, IF OverwriteRequested(request[p].overwrite)
                        THEN "openEnv" ELSE "accessEnv")
       ELSE /\ UNCHANGED targetDir
            /\ Settle(p, HandlerCatch(FailedToWrite("mkdir")))
  /\ UNCHANGED <<token, envFile, request, existed, cvars>>

\* lines 274-289: access(filePath) resolves, and the call reports that nothing
\* was written, or rejects, and the call goes on to write.
AccessEnv(p) ==
  /\ hpc[p] = "accessEnv"
  /\ IF envFile # EnvAbsent
     THEN Settle(p, ToolResult(Payload("env_file", FALSE, <<>>)))
     ELSE Await(p, "openEnv")
  /\ UNCHANGED <<token, targetDir, envFile, request, existed, cvars>>

\* lines 290-291: writeFile opens the file, which creates or truncates it, or
\* fails to.
OpenEnv(p) ==
  /\ hpc[p] = "openEnv"
  /\ \E ok \in BOOLEAN :
       IF ok
       THEN /\ envFile' = EnvEmpty
            /\ Await(p, "writeEnv")
       ELSE /\ UNCHANGED envFile
            /\ Settle(p, HandlerCatch(FailedToWrite("open")))
  /\ UNCHANGED <<token, targetDir, request, existed, cvars>>

\* lines 291-302: writeFile writes the line, and the call reports that it was
\* written, or fails to.  The payload's flag is "written".
WriteEnv(p) ==
  /\ hpc[p] = "writeEnv"
  /\ \E ok \in BOOLEAN :
       IF ok
       THEN /\ envFile' = EnvLine(token)
            /\ Settle(p, ToolResult(Payload("env_file", TRUE, <<>>)))
       ELSE /\ UNCHANGED envFile
            /\ Settle(p, HandlerCatch(FailedToWrite("write")))
  /\ UNCHANGED <<token, targetDir, request, existed, cvars>>

\* The server starts with a token, or none, in its environment, and the target
\* directory may hold a .env already.
ToolInit ==
  /\ now = TTL
  /\ ticks = 0
  /\ dir = FALSE
  /\ file = FileAbsent
  /\ CacheIdle
  /\ token \in Tokens
  /\ targetDir \in BOOLEAN
  /\ envFile \in {EnvAbsent, EnvOther}
  /\ (~targetDir => envFile = EnvAbsent)
  /\ ToolIdle

ToolNext ==
  \/ \E p \in Procs : UnknownTool(p)
  \/ \E p \in Procs : ExplainAuthenticationModel(p)
  \/ \E p \in Procs : GetAuthToken(p)
  \/ \E p \in Procs : GetApiSpecification(p)
  \/ \E p \in Procs : FetchSpec(p)
  \/ \E p \in Procs : JsonSpec(p)
  \/ \E p \in Procs : GetDeploymentGuide(p)
  \/ \E p \in Procs : GuideSettles(p)
  \/ \E p \in Procs : CreateEnvFile(p)
  \/ \E p \in Procs : MkdirEnv(p)
  \/ \E p \in Procs : AccessEnv(p)
  \/ \E p \in Procs : OpenEnv(p)
  \/ \E p \in Procs : WriteEnv(p)

ToolSpec == ToolInit /\ [][ToolNext]_vars

\* ------------------------------------------------------------------------
\* Properties.  Ages and records are compared with plain integer arithmetic
\* and plain equality, not with the operators of the model.

\* Invocation p's readFile settles in this step.
ReadSettles(p) == pc[p] = "readFile" /\ pc'[p] # "readFile"

\* Invocation p finishes in this step.
Finishes(p) == pc[p] # "done" /\ pc'[p] = "done"

\* The cache file holds a parseable record younger than 24 hours.
FileFresh ==
  /\ file.kind = "object"
  /\ file.obj.cached_at.kind = "iso"
  /\ now - file.obj.cached_at.ms < TTL

\* C1: an invocation that reads a parseable record younger than 24 hours
\* returns exactly that record in the same step and leaves the cache file
\* alone; it has issued no network request and no write.  Two invocations that
\* both find a fresh record, with no write of the file by anyone, return
\* identical records.
C1_FreshHit ==
  /\ [][\A p \in Procs :
          (ReadSettles(p) /\ FileFresh) =>
            /\ pc'[p] = "done"
            /\ result'[p] = Returned(file.obj)
            /\ file' = file]_vars
  /\ [](\A p \in Procs :
          obs[p].read = "fresh" =>
            /\ pc[p] = "done"
            /\ obs[p].netCalls = 0
            /\ obs[p].writes = 0
            /\ obs[p].fetch = "none" /\ obs[p].write = "none")
  /\ [](\A p, q \in Procs :
          (obs[p].read = "fresh" /\ obs[q].read = "fresh"
             /\ \A r \in Procs : obs[r].writes = 0)
            => result[p] = result[q])

\* Two invocations have both been served the same fresh record.
C1_Witness ==
  \E p, q \in Procs :
    /\ p # q
    /\ obs[p].read = "fresh" /\ obs[q].read = "fresh"
    /\ file.kind = "object"
    /\ result[p] = Returned(file.obj) /\ result[q] = result[p]

\* C2 (as claimed): no invocation ever settles by raising.
C2_NeverRaises == \A p \in Procs : result[p] # Raised

\* C3: an invocation whose fetch failed (rejection, response not ok, or a
\* rejection while reading the body) has returned the fallback record:
\* source "default" and the bundled guide as content.
C3_FetchFailDefault ==
  \A p \in Procs :
    obs[p].fetch = "failed" =>
      /\ pc[p] = "done"
      /\ result[p].tag = "record"
      /\ result[p].rec.source = "default"
      /\ result[p].rec.content = getDefaultDeploymentGuide

\* A fetch failed while the cache file held a stale but well-formed record.
C3_Witness ==
  \E p \in Procs :
    /\ obs[p].fetch = "failed"
    /\ obs[p].read \in {"stale", "stale24h"}
    /\ file.kind = "object" /\ file.obj.content = "OLD"
    /\ result[p].tag = "record"

\* C4: an invocation whose fetch succeeded returns, once it is done, a record
\* with source "remote" and the fetched body as content, whether its write of
\* the cache file succeeded or failed.
C4_FetchOkRemote ==
  \A p \in Procs :
    obs[p].fetch = "ok" =>
      /\ pc[p] \in {"writeFile", "writing", "done"}
      /\ pc[p] = "done" =>
           /\ obs[p].write \in {"ok", "failed"}
           /\ result[p].tag = "record"
           /\ result[p].rec.source = "remote"
           /\ result[p].rec.content = obs[p].body

\* A fetch succeeded and the write of the cache file failed.
C4_Witness ==
  \E p \in Procs :
    /\ pc[p] = "done"
    /\ obs[p].fetch = "ok"
    /\ obs[p].write = "failed"
    /\ result[p].rec.content = obs[p].body

\* The record invocation q built from the body it fetched.
BuiltRecord(q) ==
  [content |-> obs[q].body,
   cached_at |-> [kind |-> "iso", ms |-> obs[q].builtAt],
   source |-> "remote"]

\* The cache file holds exactly the record o.
FileHolds(f, o) == f.kind = "object" /\ f.obj = o

\* C5 (as claimed): an invocation made after an invocation whose fetch
\* succeeded had finished, and less than 24 hours after every successful
\* fetch, has issued no network request and returns the content of such a
\* fetch.
C5_Original ==
  \A p \in Procs :
    ( /\ pc[p] = "done" /\ result[p].tag = "record"
      /\ obs[p].afterFetch
      /\ \A q \in Procs \ {p} :
           obs[q].fetch = "ok" => (pc[q] = "done" /\ now - obs[q].builtAt < TTL) )
    => /\ obs[p].netCalls = 0
       /\ \E q \in Procs \ {p} :
            obs[q].fetch = "ok" /\ result[p].rec.content = obs[q].body

\* C5 (amended): when an invocation's fetch and its write of the cache file
\* both succeeded, an invocation that reads the cache file while it still holds
\* that record, less than 24 hours after the record's cached_at, returns
\* content identical to the fetched body and issues no network request.
C5_WrittenFetchServed ==
  [][\A p, q \in Procs :
       ( /\ p # q
         /\ ReadSettles(p)
         /\ pc[q] = "done" /\ obs[q].fetch = "ok" /\ obs[q].write = "ok"
         /\ FileHolds(file, BuiltRecord(q))
         /\ now - obs[q].builtAt < TTL )
       => /\ pc'[p] = "done"
          /\ result'[p].tag = "record"
          /\ result'[p].rec.content = obs[q].body
          /\ obs'[p].netCalls = 0
          /\ obs'[p].fetch = "none"]_vars

\* An invocation was served, after the clock had advanced, the record that
\* another invocation had fetched and written.
C5_Witness ==
  \E p, q \in Procs :
    /\ p # q
    /\ obs[q].fetch = "ok" /\ obs[q].write = "ok"
    /\ obs[p].read = "fresh" /\ obs[p].afterFetch
    /\ result[p] = Returned(BuiltRecord(q))
    /\ obs[p].netCalls = 0
    /\ now - obs[q].builtAt = TTL - 1

\* C6: no invocation issues more than one network request or more than one
\* write of the cache file.
C6_AtMostOneEach ==
  \A p \in Procs : obs[p].netCalls <= 1 /\ obs[p].writes <= 1

\* An invocation has finished after one request and one write.
C6_Witness ==
  \E p \in Procs :
    pc[p] = "done" /\ obs[p].netCalls = 1 /\ obs[p].writes = 1

\* The cache file holds a record with the structure of a CacheRecord.
FileWellFormed ==
  /\ file.kind = "object"
  /\ file.obj.content # Missing
  /\ file.obj.source \in {"remote", "default"}
  /\ file.obj.cached_at.kind = "iso"

\* C7 (as claimed): an invocation that reads the cache file while it is absent,
\* unparsable or without the structure of a CacheRecord goes on to exactly one
\* fetch.
C7_CorruptIsMiss ==
  [][\A p \in Procs :
       (ReadSettles(p) /\ ~FileWellFormed) =>
         /\ pc'[p] = "fetch"
         /\ obs'[p].netCalls = 1]_vars

\* C8 (as claimed): every returned record carries a content string and a source
\* tag that is "remote" or "default".
C8_RecordShape ==
  \A p \in Procs :
    result[p].tag = "record" =>
      /\ result[p].rec.content # Missing
      /\ result[p].rec.source \in {"remote", "default"}

\* C9 (as claimed): when an invocation finishes after a failed fetch, the cache
\* file holds the fallback record it returns.
C9_FallbackPersisted ==
  [][\A p \in Procs :
       (Finishes(p) /\ obs'[p].fetch = "failed") =>
         FileHolds(file', result'[p].rec)]_vars

\* C10 (as claimed): an invocation that read a record 24 hours old or older
\* has issued one fetch; the record it builds from the fetched body B carries
\* B, "remote" and the time of building; when its write settles it returns
\* that record, and if the write did not fail the cache file holds exactly
\* that record.
C10_StaleRefresh ==
  /\ [](\A p \in Procs :
          obs[p].read \in {"stale", "stale24h"} =>
            /\ obs[p].netCalls = 1
            /\ obs[p].fetch # "none")
  /\ [][\A p \in Procs :
          (pc[p] = "text" /\ pc'[p] = "writeFile") =>
            /\ obs'[p].body \in Bodies
            /\ obs'[p].builtAt = now]_vars
  /\ [][\A p \in Procs :
          (pc[p] \in {"writeFile", "writing"} /\ Finishes(p)
             /\ obs[p].read \in {"stale", "stale24h"}) =>
            /\ result'[p] = Returned(BuiltRecord(p))
            /\ (obs'[p].write = "ok" => FileHolds(file', BuiltRecord(p)))]_vars

\* No invocation is in flight.
Quiescent == \A p \in Procs : pc[p] \in {"idle", "done"}

\* C11 (as claimed): once an invocation has read a parseable record from the
\* cache file, the file holds a parseable record whenever no invocation is in
\* flight.
C11_RecordNeverLost ==
  (Quiescent /\ \E p \in Procs : obs[p].read \in {"fresh", "stale24h", "stale"})
    => file.kind = "object"

\* C12 (as claimed): when a write of the cache file succeeds, the file holds
\* exactly the whole record of that writer, the last one, and not a mixture of
\* two writers' records.
C12_LastWriterWins ==
  [][\A p \in Procs :
       (pc[p] = "writing" /\ Finishes(p) /\ obs'[p].write = "ok") =>
         FileHolds(file', BuiltRecord(p))]_vars

\* C15: an invocation that reads a cache file that parses as a JSON object but
\* whose cached_at is missing, is a string that is no date, or is null, does
\* not return it: it goes on to the fetch, and what it returns in the end is a
\* record of its own making.
C15_BadDateIsMiss ==
  /\ [][\A p \in Procs :
          (ReadSettles(p) /\ file.kind = "object"
             /\ file.obj.cached_at.kind # "iso") =>
            /\ pc'[p] = "fetch"
            /\ result'[p] = NoResult
            /\ obs'[p].netCalls = 1]_vars
  /\ [](\A p \in Procs :
          (obs[p].read = "nodate" /\ result[p].tag = "record") =>
            /\ result[p].rec.cached_at.kind = "iso"
            /\ result[p].rec.source \in {"remote", "default"}
            /\ result[p].rec.content # "OLD")

\* An invocation found a record without a usable cached_at and has returned a
\* record of its own after one fetch.
C15_Witness ==
  \E p \in Procs :
    /\ obs[p].read = "nodate"
    /\ pc[p] = "done"
    /\ obs[p].netCalls = 1
    /\ result[p].tag = "record"
    /\ result[p].rec.content # "OLD"

\* Invocation p's writeFile takes the place of what the cache file holds in
\* this step: its open truncates the file, or its text lands.
Replaces(p) ==
  \/ pc[p] = "writeFile" /\ pc'[p] = "writing"
  \/ pc[p] = "writing" /\ obs'[p].write = "ok"

\* The cache file holds a record whose cached_at is an instant.
FileDated == file.kind = "object" /\ file.obj.cached_at.kind = "iso"

\* C17 (as claimed): under any interleaving, a write of the cache file stores a
\* cached_at that is not earlier than the cached_at of the record it replaces.
C17_Original ==
  [][\A p \in Procs :
       (Replaces(p) /\ FileDated) =>
         cacheData[p].cached_at.ms >= file.obj.cached_at.ms]_vars

\* C17 (amended): for an invocation that does not overlap any other, the write
\* of the cache file stores a cached_at that is not earlier than the cached_at
\* of the record it replaces, and what it stores is the time at which it built
\* its record.
C17_SequentialMonotone ==
  [][\A p \in Procs :
       (Replaces(p) /\ ~obs'[p].overlap) =>
         /\ cacheData[p].cached_at = [kind |-> "iso", ms |-> obs[p].builtAt]
         /\ FileDated => cacheData[p].cached_at.ms >= file.obj.cached_at.ms
         /\ (pc[p] = "writing" => FileHolds(file', cacheData[p]))]_vars

\* An invocation that ran alone has replaced a dated record by a later one.
C17_Witness ==
  \E p \in Procs :
    /\ pc[p] = "done"
    /\ ~obs[p].overlap
    /\ obs[p].read \in {"stale", "stale24h"}
    /\ obs[p].write = "ok"
    /\ FileHolds(file, BuiltRecord(p))
    /\ obs[p].builtAt >= TTL

\* ------------------------------------------- properties of the tool handler

\* Call p has settled.
Settled(p) == hpc[p] = "done"

\* Call p takes a step, and settles in it.
Steps(p) == hpc'[p] # hpc[p]
Completes(p) == hpc[p] # "done" /\ hpc'[p] = "done"

\* The positions of a token that a masked value may show: the first four and
\* the last four.
Shown(tok) == { i \in 1..Len(tok) : i <= 4 \/ i > Len(tok) - 4 }

\* C13 (as claimed): whatever the length of a non-empty token, a get_auth_token
\* call whose masked argument is omitted or is anything but false reports a
\* value that differs from the token, has '*' at every position that is not
\* among the first four and the last four, and has no character of the token
\* from such a position anywhere.
C13_MaskedByDefault ==
  \A p \in Procs :
    (Settled(p) /\ request[p].name = "get_auth_token"
       /\ request[p].masked # JsBoolean(FALSE) /\ token # <<>>) =>
      LET value == response[p].payload.tok IN
        /\ value # token
        /\ \A i \in (1..Len(token)) \ Shown(token) :
             i <= Len(value) /\ value[i] = "*"
        /\ \A j \in 1..Len(value) :
             value[j] = "*" \/ \E i \in Shown(token) : value[j] = token[i]

\* The two results of create_env_file.
WrittenFalse == ToolResult(Payload("env_file", FALSE, <<>>))
WrittenTrue == ToolResult(Payload("env_file", TRUE, <<>>))

\* Call p is a create_env_file call with a target directory and a token.
EnvCall(p) ==
  /\ request'[p].name = "create_env_file"
  /\ request'[p].target_dir = JsString("proj")
  /\ token # <<>>

\* C14 (as claimed): a create_env_file call made while .env exists, with an
\* overwrite argument that is not exactly true, leaves the file as it is and
\* reports written: false; every other call ends with the file holding exactly
\* the line AI_BUILDER_TOKEN=<token> and reports written: true.
C14_Original ==
  [][\A p \in Procs :
       (Completes(p) /\ EnvCall(p)) =>
         IF existed[p] /\ request[p].overwrite # JsBoolean(TRUE)
         THEN envFile' = envFile /\ response'[p] = WrittenFalse
         ELSE envFile' = EnvLine(token) /\ response'[p] = WrittenTrue]_vars

\* C14 (amended): a create_env_file call whose overwrite argument is not
\* exactly true never changes a .env it did not write: if .env exists when the
\* call is made, or when the call checks for it, the call leaves the file as
\* it is and reports written: false.  A call reports written: true only in the
\* step in which its write succeeds, and the file then holds exactly the line
\* AI_BUILDER_TOKEN=<token>.  Every other call ends with the error result
\* "Failed to write .env: ...".
C14_NoSilentOverwrite ==
  [][\A p \in Procs :
       (Steps(p) /\ EnvCall(p)) =>
         /\ (envFile = EnvOther /\ envFile' # envFile) =>
              request[p].overwrite = JsBoolean(TRUE)
         /\ (hpc[p] = "accessEnv" /\ envFile # EnvAbsent) =>
              envFile' = envFile /\ response'[p] = WrittenFalse
         /\ (Completes(p) /\ existed[p]
               /\ request[p].overwrite # JsBoolean(TRUE)) =>
              envFile' = envFile /\ response'[p] = WrittenFalse
         /\ response'[p] = WrittenTrue =>
              hpc[p] = "writeEnv" /\ envFile' = EnvLine(token)
         /\ (Completes(p) /\ response'[p] \notin {WrittenFalse, WrittenTrue}) =>
              /\ response'[p].isError
              /\ response'[p].payload.msg = "Failed to write .env: "]_vars

\* One call has replaced an existing .env because it was asked to, and another
\* has found .env and left it alone.
C14_Witness ==
  \E p, q \in Procs :
    /\ Settled(p) /\ Settled(q)
    /\ existed[p] /\ request[p].overwrite = JsBoolean(TRUE)
    /\ response[p] = WrittenTrue
    /\ existed[q] /\ request[q].overwrite = JsString("true")
    /\ response[q] = WrittenFalse
    /\ envFile = EnvLine(token)
    /\ Len(token) > 0

\* C16: the handler's promise never rejects: every call that settles settles
\* to a result, an error is a result with isError and the error's message,
\* and a name that is none of the five tools gives "Unknown tool: <name>".
C16_NeverThrows ==
  \A p \in Procs :
    /\ response[p].tag # "thrown"
    /\ Settled(p) =>
         /\ response[p].tag = "result"
         /\ response[p].isError <=> response[p].payload.kind = "error"
         /\ response[p].isError => response[p].payload.msg # ""
         /\ request[p].name \notin ToolNames =>
              response[p] =
                ErrorResult(ErrorMessage("Unknown tool: ", request[p].name))

\* A call of an unknown tool and a call whose getCachedDeploymentGuide raised
\* have both settled to error results.
C16_Witness ==
  \E p, q \in Procs :
    /\ Settled(p) /\ request[p].name \in UnknownNames
    /\ response[p].isError
    /\ response[p].payload.detail = request[p].name
    /\ Settled(q) /\ request[q].name = "get_deployment_guide"
    /\ response[q].isError

\* C18: a create_env_file call whose target_dir is missing or not a string, or
\* that is made while AI_BUILDER_TOKEN is unset or empty, settles at once to an
\* error result that names the reason, and leaves the target directory and
\* .env as they are; a settled call does nothing more.
C18_RejectsUntouched ==
  /\ [][\A p \in Procs :
          (hpc[p] = "idle" /\ request'[p].name = "create_env_file"
             /\ (request'[p].target_dir.type # "string" \/ token = <<>>)) =>
            /\ hpc'[p] = "done"
            /\ response'[p].tag = "result"
            /\ response'[p].isError
            /\ response'[p].payload.msg \in
                 {"target_dir is required",
                  "AI_BUILDER_TOKEN is not set in server environment"}
            /\ UNCHANGED <<targetDir, envFile>>]_vars
  /\ [][\A p \in Procs :
          hpc[p] = "done" =>
            hpc'[p] = "done" /\ response'[p] = response[p]]_vars

\* With no token in the environment, a call without target_dir and a call with
\* one have both been rejected, and there is still no target directory.
C18_Witness ==
  \E p, q \in Procs :
    /\ token = <<>>
    /\ Settled(p) /\ request[p].name = "create_env_file"
    /\ request[p].target_dir = JsUndefined
    /\ response[p].isError
    /\ Settled(q) /\ request[q].name = "create_env_file"
    /\ request[q].target_dir = JsString("proj")
    /\ response[q].isError
    /\ ~targetDir /\ envFile = EnvAbsent

====
